---- MODULE Spec2Model ----
(***************************************************************************)
(* Model of the GlassButtonBabel configuration resolver, displacement-map  *)
(* builder and render binding (src/GlassButtonBabel.tsx) and of the two    *)
(* IconButton variants (src/type2_GlassSurface.tsx, src/unnamed/part_000). *)
(*                                                                         *)
(* JavaScript numbers are IEEE-754 binary64 values.  They are modelled     *)
(* exactly: a finite number is  s * m * 2^e  with s the sign, m an odd     *)
(* natural below 2^53 (or 0) held as little-endian limbs in base 2^15, and *)
(* e an integer.  Every arithmetic operator rounds to nearest, ties to     *)
(* even, as the hardware does.  Exponent overflow and subnormals are far   *)
(* outside the values the model feeds in and are not modelled.             *)
(***************************************************************************)
EXTENDS Integers, Sequences, FiniteSets, TLC

\* ------------------------------------------------------------------------
\* Natural numbers of arbitrary size (limbs, least significant first)
\* ------------------------------------------------------------------------

LimbBits == 15
Base == 2^LimbBits

RECURSIVE BTrim(_)
BTrim(x) ==
  IF x = <<>> THEN x
  ELSE IF x[Len(x)] = 0 THEN BTrim(SubSeq(x, 1, Len(x) - 1)) ELSE x

RECURSIVE BFromNat(_)
BFromNat(n) == IF n = 0 THEN <<>> ELSE <<n % Base>> \o BFromNat(n \div Base)

RECURSIVE BMulSmall(_, _, _)
BMulSmall(x, k, c) ==
  IF x = <<>> THEN BFromNat(c)
  ELSE LET t == x[1] * k + c
       IN  <<t % Base>> \o BMulSmall(Tail(x), k, t \div Base)

RECURSIVE BAddC(_, _, _)
BAddC(x, y, c) ==
  IF x = <<>> /\ y = <<>> THEN BFromNat(c)
  ELSE LET a == IF x = <<>> THEN 0 ELSE x[1]
           b == IF y = <<>> THEN 0 ELSE y[1]
           t == a + b + c
       IN  <<t % Base>> \o BAddC(IF x = <<>> THEN x ELSE Tail(x),
                                 IF y = <<>> THEN y ELSE Tail(y), t \div Base)

BAdd(x, y) == BTrim(BAddC(x, y, 0))

\* x - y for x >= y
RECURSIVE BSubC(_, _, _)
BSubC(x, y, c) ==
  IF x = <<>> THEN <<>>
  ELSE LET b == IF y = <<>> THEN 0 ELSE y[1]
           t == x[1] - b - c
       IN  <<t % Base>> \o BSubC(Tail(x), IF y = <<>> THEN y ELSE Tail(y),
                                 IF t < 0 THEN 1 ELSE 0)

BSub(x, y) == BTrim(BSubC(x, y, 0))

RECURSIVE BMulRec(_, _)
BMulRec(x, y) ==
  IF y = <<>> THEN <<>>
  ELSE BAddC(BMulSmall(x, y[1], 0), <<0>> \o BMulRec(x, Tail(y)), 0)

BMul(x, y) == BTrim(BMulRec(x, y))

\* quotient and remainder of x by a small d (d < 2^16)
RECURSIVE BDivRec(_, _, _, _)
BDivRec(x, d, i, r) ==
  IF i = 0 THEN [q |-> <<>>, r |-> r]
  ELSE LET t    == r * Base + x[i]
           rest == BDivRec(x, d, i - 1, t % d)
       IN  [q |-> rest.q \o <<t \div d>>, r |-> rest.r]

BDivSmall(x, d) ==
  LET qr == BDivRec(x, d, Len(x), 0) IN [q |-> BTrim(qr.q), r |-> qr.r]

RECURSIVE BitLenSmall(_)
BitLenSmall(n) == IF n = 0 THEN 0 ELSE 1 + BitLenSmall(n \div 2)

BBitLen(x) ==
  IF x = <<>> THEN 0 ELSE LimbBits * (Len(x) - 1) + BitLenSmall(x[Len(x)])

Zeros(n) == [i \in 1..n |-> 0]

BShl(x, k) ==
  IF x = <<>> THEN x
  ELSE BTrim(Zeros(k \div LimbBits) \o BMulSmall(x, 2^(k % LimbBits), 0))

BShr(x, k) ==
  LET q == k \div LimbBits
  IN  IF q >= Len(x) THEN <<>>
      ELSE BDivSmall(SubSeq(x, q + 1, Len(x)), 2^(k % LimbBits)).q

\* bit i (0 = least significant) of x
BBit(x, i) ==
  LET q == i \div LimbBits + 1
  IN  IF q > Len(x) THEN 0 ELSE (x[q] \div 2^(i % LimbBits)) % 2

\* x mod 2^k = 0
BLowZero(x, k) ==
  LET q == k \div LimbBits
  IN  /\ \A i \in 1..q : i > Len(x) \/ x[i] = 0
      /\ q + 1 > Len(x) \/ x[q + 1] % 2^(k % LimbBits) = 0

BOdd(x) == x # <<>> /\ x[1] % 2 = 1

RECURSIVE TzSmall(_)
TzSmall(n) == IF n % 2 = 1 THEN 0 ELSE 1 + TzSmall(n \div 2)

\* number of trailing zero bits of x # 0
RECURSIVE BTz(_)
BTz(x) == IF x[1] = 0 THEN LimbBits + BTz(Tail(x)) ELSE TzSmall(x[1])

\* -1, 0, 1 as x < y, x = y, x > y
RECURSIVE BCmpRec(_, _, _)
BCmpRec(x, y, i) ==
  IF i = 0 THEN 0
  ELSE IF x[i] < y[i] THEN -1
  ELSE IF x[i] > y[i] THEN 1
  ELSE BCmpRec(x, y, i - 1)

BCmp(x, y) ==
  IF Len(x) < Len(y) THEN -1
  ELSE IF Len(x) > Len(y) THEN 1
  ELSE BCmpRec(x, y, Len(x))

\* ------------------------------------------------------------------------
\* IEEE-754 binary64
\* ------------------------------------------------------------------------

MantBits == 53

NaN == [s |-> 0, m |-> <<>>, e |-> 0]
IsNaN(a) == a.s = 0
IsZero(a) == a.s # 0 /\ a.m = <<>>
Zero == [s |-> 1, m |-> <<>>, e |-> 0]

\* the canonical form of s * M * 2^E : M odd, or zero
Canon(s, M, E) ==
  IF M = <<>> THEN [s |-> s, m |-> <<>>, e |-> 0]
  ELSE LET tz == BTz(M) IN [s |-> s, m |-> BShr(M, tz), e |-> E + tz]

\* s * (M + f) * 2^E rounded to 53 significant bits, nearest, ties to even;
\* sticky says the discarded fraction f (0 <= f < 1) is not zero, and then
\* M has more than 53 bits
Round(s, M, sticky, E) ==
  LET L == BBitLen(M)
  IN  IF L <= MantBits THEN Canon(s, M, E)
      ELSE LET k  == L - MantBits
               Q  == BShr(M, k)
               rb == BBit(M, k - 1)
               st == sticky \/ ~BLowZero(M, k - 1)
               up == rb = 1 /\ (st \/ BOdd(Q))
           IN  Canon(s, IF up THEN BAdd(Q, <<1>>) ELSE Q, E + k)

FromInt(n) == Canon(IF n < 0 THEN -1 ELSE 1, BFromNat(IF n < 0 THEN -n ELSE n), 0)

\* a * b
MulD(a, b) ==
  IF IsNaN(a) \/ IsNaN(b) THEN NaN
  ELSE Round(a.s * b.s, BMul(a.m, b.m), FALSE, a.e + b.e)

\* a / b for a finite non-zero b whose odd significand is one limb (every
\* divisor of the program is: a preset height, or the denominator of a
\* decimal literal)
DivD(a, b) ==
  IF IsNaN(a) \/ IsNaN(b) THEN NaN
  ELSE IF IsZero(a) THEN [s |-> a.s * b.s, m |-> <<>>, e |-> 0]
  ELSE LET d  == b.m[1]
           t  == MantBits + 3 + BitLenSmall(d) - BBitLen(a.m)
           qr == BDivSmall(BShl(a.m, t), d)
       IN  Round(a.s * b.s, qr.q, qr.r # 0, a.e - b.e - t)

\* the number a decimal literal n/d denotes (the double nearest to n/d)
Dec(n, d) == DivD(FromInt(n), FromInt(d))

Neg(a) == [a EXCEPT !.s = -a.s]

\* -1, 0, 1 as a < b, a = b, a > b, for numbers a and b (zeros compare equal)
CmpD(a, b) ==
  LET sa == IF IsZero(a) THEN 0 ELSE a.s
      sb == IF IsZero(b) THEN 0 ELSE b.s
  IN  IF sa # sb THEN (IF sa < sb THEN -1 ELSE 1)
      ELSE IF sa = 0 THEN 0
      ELSE LET e == IF a.e < b.e THEN a.e ELSE b.e
           IN  sa * BCmp(BShl(a.m, a.e - e), BShl(b.m, b.e - e))

\* a + b
AddD(a, b) ==
  IF IsNaN(a) \/ IsNaN(b) THEN NaN
  ELSE IF IsZero(a) /\ IsZero(b) THEN (IF a.s = b.s THEN a ELSE Zero)
  ELSE IF IsZero(a) THEN b
  ELSE IF IsZero(b) THEN a
  ELSE LET e == IF a.e < b.e THEN a.e ELSE b.e
           A == BShl(a.m, a.e - e)
           B == BShl(b.m, b.e - e)
           c == BCmp(A, B)
       IN  IF a.s = b.s THEN Round(a.s, BAdd(A, B), FALSE, e)
           ELSE IF c = 0 THEN Zero
           ELSE IF c > 0 THEN Round(a.s, BSub(A, B), FALSE, e)
           ELSE Round(b.s, BSub(B, A), FALSE, e)

\* a - b
SubD(a, b) == AddD(a, Neg(b))

\* Math.min(a, b): NaN if either is, and -0 below +0
MinD(a, b) ==
  IF IsNaN(a) \/ IsNaN(b) THEN NaN
  ELSE LET c == CmpD(a, b)
       IN  IF c < 0 THEN a
           ELSE IF c > 0 THEN b
           ELSE IF a.s < 0 THEN a ELSE b

\* ------------------------------------------------------------------------
\* JavaScript values and objects
\* ------------------------------------------------------------------------

Undef  == [k |-> "undefined", n |-> Zero, s |-> ""]
Null   == [k |-> "null", n |-> Zero, s |-> ""]
Num(d) == [k |-> "number", n |-> d, s |-> ""]
Str(t) == [k |-> "string", n |-> Zero, s |-> t]

\* v != null
NotNullish(v) == v.k \notin {"undefined", "null"}

\* the number an arithmetic operator reads from v (the strings of the model
\* are blend modes and channel names, none of which is numeric)
ToNumber(v) ==
  CASE v.k = "number" -> v.n
    [] v.k = "null"   -> Zero
    [] OTHER          -> NaN

\* o[key] on an object o, held as the function from its own enumerable
\* property names to their values
Get(o, key) == IF key \in DOMAIN o THEN o[key] ELSE Undef

\* { ...a, ...b }
Spread(a, b) ==
  [k \in DOMAIN a \cup DOMAIN b |-> IF k \in DOMAIN b THEN b[k] ELSE a[k]]

\* ------------------------------------------------------------------------
\* GlassButtonBabel: presets
\* ------------------------------------------------------------------------

NumFields == {"width", "height", "radius", "scale", "border", "lightness",
              "alpha", "blur", "displace", "saturation", "r", "g", "b", "frost"}
StrFields == {"blend", "x", "y"}
ConfigFields == NumFields \cup StrFields

Modes == {"dock", "pill", "bubble", "free"}

BASE ==
  [scale |-> Num(FromInt(-180)), border |-> Num(Dec(7, 100)),
   lightness |-> Num(FromInt(50)), displace |-> Num(FromInt(0)),
   blend |-> Str("difference"), x |-> Str("R"), y |-> Str("B"),
   alpha |-> Num(Dec(93, 100)), blur |-> Num(FromInt(11)),
   r |-> Num(FromInt(0)), g |-> Num(FromInt(10)), b |-> Num(FromInt(20)),
   saturation |-> Num(FromInt(1)), frost |-> Num(FromInt(0))]

PRESETS ==
  [dock   |-> Spread(BASE, [width |-> Num(FromInt(336)), height |-> Num(FromInt(96)),
                            radius |-> Num(FromInt(16)), displace |-> Num(Dec(1, 5)),
                            frost |-> Num(Dec(5, 100))]),
   pill   |-> Spread(BASE, [width |-> Num(FromInt(200)), height |-> Num(FromInt(80)),
                            radius |-> Num(FromInt(40))]),
   bubble |-> Spread(BASE, [width |-> Num(FromInt(140)), height |-> Num(FromInt(140)),
                            radius |-> Num(FromInt(70))]),
   free   |-> Spread(BASE, [width |-> Num(FromInt(140)), height |-> Num(FromInt(280)),
                            radius |-> Num(FromInt(80)), border |-> Num(Dec(15, 100)),
                            alpha |-> Num(Dec(74, 100)), lightness |-> Num(FromInt(60)),
                            blur |-> Num(FromInt(10)), scale |-> Num(FromInt(-300))])]

SCALABLE_FIELDS == {"width", "height", "radius", "blur", "displace"}

\* the fields applySize assigns: the loop over SCALABLE_FIELDS, then scale,
\* r, g and b
SizedFields == SCALABLE_FIELDS \cup {"scale", "r", "g", "b"}

\* applySize with border among the scaled fields
ApplySizeBorderToo(preset, size) ==
  LET factor == DivD(size, ToNumber(Get(preset, "height")))
  IN  [k \in DOMAIN preset \cup SizedFields |->
         IF k \in SizedFields \cup {"border"}
           THEN Num(MulD(ToNumber(Get(preset, k)), factor))
           ELSE preset[k]]

\* applySize without the assignment to scaled.scale
ApplySizeScaleKept(preset, size) ==
  LET factor == DivD(size, ToNumber(Get(preset, "height")))
  IN  [k \in DOMAIN preset \cup SizedFields |->
         IF k \in SizedFields /\ (k # "scale" \/ k \notin DOMAIN preset)
           THEN Num(MulD(ToNumber(Get(preset, k)), factor))
           ELSE preset[k]]

\* applySize with the factor taken from the preset's width
ApplySizeByWidth(preset, size) ==
  LET factor == DivD(size, ToNumber(Get(preset, "width")))
  IN  [k \in DOMAIN preset \cup SizedFields |->
         IF k \in SizedFields
           THEN Num(MulD(ToNumber(Get(preset, k)), factor))
           ELSE preset[k]]

\* the record applySize(preset, size) returns
ApplySize(preset, size) ==
  LET factor == DivD(size, ToNumber(Get(preset, "height")))
  IN  [k \in DOMAIN preset \cup SizedFields |->
         IF k \in SizedFields
           THEN Num(MulD(ToNumber(Get(preset, k)), factor))
           ELSE preset[k]]

\* applySize assigning to the preset itself (scaled = preset)
ApplySizeInPlace(table, key, size) ==
  [table EXCEPT ![key] = ApplySize(table[key], size)]

\* the preset table after applySize(table[key], size) has run: every
\* assignment of applySize goes to its own copy, scaled = { ...preset }
ApplySizeTable(table, key, size) == table

\* the names PRESETS[...] finds on Object.prototype, which a plain object
\* literal inherits from
ObjectPrototypeKeys ==
  {"constructor", "toString", "toLocaleString", "valueOf", "hasOwnProperty",
   "isPrototypeOf", "propertyIsEnumerable", "__proto__", "__defineGetter__",
   "__defineSetter__", "__lookupGetter__", "__lookupSetter__"}

\* an inherited member (a function, or Object.prototype itself): an object
\* with no own enumerable property
Inherited == [k \in {} |-> Undef]

\* PRESETS[mode] ?? PRESETS.dock
SelectPreset(table, mode) ==
  IF mode \in DOMAIN table THEN table[mode]
  ELSE IF mode \in ObjectPrototypeKeys THEN Inherited
  ELSE table["dock"]

\* ------------------------------------------------------------------------
\* GlassButtonBabel: the props and the configuration resolver
\* ------------------------------------------------------------------------

NoOverrides == [f \in ConfigFields |-> Undef]

\* the style prop left out: spreading it adds no property
NoStyle == [k \in {} |-> Undef]

DefaultProps ==
  [mode |-> Undef, size |-> Undef, ov |-> NoOverrides, fixed |-> FALSE,
   style |-> NoStyle]

\* the parameter mode = "dock": the default replaces undefined only
ModeVal(props) == IF props.mode.k = "undefined" THEN Str("dock") ELSE props.mode

\* the property name PRESETS[mode] reads
ModeKey(props) == IF ModeVal(props).k = "null" THEN "null" ELSE ModeVal(props).s

\* whether v is truthy
Truthy(v) ==
  CASE v.k = "number" -> ~IsNaN(v.n) /\ ~IsZero(v.n)
    [] v.k = "string" -> v.s # ""
    [] OTHER          -> FALSE

\* the merge with each override guarded by its truthiness (width && { width })
OverlayTruthy(sized, ov) ==
  [k \in DOMAIN sized \cup {f \in DOMAIN ov : Truthy(ov[f])} |->
     IF k \in DOMAIN ov /\ Truthy(ov[k]) THEN ov[k] ELSE sized[k]]

\* { ...sized, ...(width != null && { width }), ... }
Overlay(sized, ov) ==
  [k \in DOMAIN sized \cup {f \in DOMAIN ov : NotNullish(ov[f])} |->
     IF k \in DOMAIN ov /\ NotNullish(ov[k]) THEN ov[k] ELSE sized[k]]

\* size != null ? applySize(preset, size) : preset
Sized(table, props) ==
  LET preset == SelectPreset(table, ModeKey(props))
  IN  IF NotNullish(props.size) THEN ApplySize(preset, ToNumber(props.size))
      ELSE preset

\* the callback of the cfg useMemo
Resolve(table, props) == Overlay(Sized(table, props), props.ov)

\* the preset table after that callback has run
ResolveTable(table, props) ==
  IF NotNullish(props.size) /\ ModeKey(props) \in DOMAIN table
    THEN ApplySizeTable(table, ModeKey(props), ToNumber(props.size))
    ELSE table

\* ------------------------------------------------------------------------
\* GlassButtonBabel: the displacement map
\* ------------------------------------------------------------------------

\* `${v}` in a template literal.  A number's decimal string stands for the
\* number it denotes (the conversion is one-to-one but for -0, which prints
\* as "0").
Interp(v) ==
  CASE v.k = "undefined" -> Str("undefined")
    [] v.k = "null"      -> Str("null")
    [] v.k = "number" /\ IsZero(v.n) -> Num(Zero)
    [] OTHER             -> v

\* an inset of the whole border width
InsetWhole(cfg) ==
  MulD(MinD(ToNumber(Get(cfg, "width")), ToNumber(Get(cfg, "height"))),
       ToNumber(Get(cfg, "border")))

\* the inset b of the frosted core
Inset(cfg) ==
  MulD(MinD(ToNumber(Get(cfg, "width")), ToNumber(Get(cfg, "height"))),
       MulD(ToNumber(Get(cfg, "border")), Dec(1, 2)))

\* buildDataURI(cfg): the document's interpolated values, element by
\* element; encodeURIComponent and the data: prefix are one-to-one
BuildDataURI(cfg) ==
  LET w == Get(cfg, "width")
      h == Get(cfg, "height")
      rx == Get(cfg, "radius")
      b == Inset(cfg)
  IN  [scheme  |-> "data:image/svg+xml",
       viewBox |-> <<Interp(w), Interp(h)>>,
       black   |-> <<Interp(w), Interp(h)>>,
       red     |-> <<Interp(w), Interp(h), Interp(rx)>>,
       blue    |-> <<Interp(w), Interp(h), Interp(rx), Interp(Get(cfg, "blend"))>>,
       core    |-> [x |-> Interp(Num(b)), y |-> Interp(Num(b)),
                    width  |-> Interp(Num(SubD(ToNumber(w), MulD(b, FromInt(2))))),
                    height |-> Interp(Num(SubD(ToNumber(h), MulD(b, FromInt(2))))),
                    rx |-> Interp(rx),
                    lightness |-> Interp(Get(cfg, "lightness")),
                    alpha |-> Interp(Get(cfg, "alpha")),
                    blur |-> Interp(Get(cfg, "blur"))]]

\* ------------------------------------------------------------------------
\* GlassButtonBabel: the component
\* ------------------------------------------------------------------------

\* the dependency array of the cfg useMemo
DepOrder ==
  <<"width", "height", "radius", "scale", "border", "lightness", "alpha",
    "blur", "displace", "blend", "x", "y", "saturation", "r", "g", "b", "frost">>

\* a dependency array that leaves frost out
DepsWithoutFrost(props) ==
  <<ModeVal(props), props.size>>
    \o [i \in 1..(Len(DepOrder) - 1) |-> props.ov[DepOrder[i]]]

\* the dependency array of the cfg useMemo
Deps(props) ==
  <<ModeVal(props), props.size>> \o [i \in 1..Len(DepOrder) |-> props.ov[DepOrder[i]]]

Digits32 ==
  <<"0", "1", "2", "3", "4", "5", "6", "7", "8", "9", "a", "b", "c", "d", "e", "f",
    "g", "h", "i", "j", "k", "l", "m", "n", "o", "p", "q", "r", "s", "t", "u", "v">>

RECURSIVE Base32(_)
Base32(n) ==
  IF n < 32 THEN <<Digits32[n + 1]>>
  ELSE Base32(n \div 32) \o <<Digits32[(n % 32) + 1]>>

\* React's useId() for the n-th component that asks for an id, ":r<n>:",
\* character by character
UseId(n) == <<":", "r">> \o Base32(n) \o <<":">>

NotColon(c) == c # ":"

\* useId().replace(/:/g, "")
Uid(id) == SelectSeq(id, NotColon)

\* `gdf-${uid}`
FilterId(uid) == <<"g", "d", "f", "-">> \o uid

\* `url(#${filterId}) saturate(${cfg.saturation})`
BackdropFilter(filterId, cfg) ==
  [url |-> filterId, saturate |-> Interp(Get(cfg, "saturation"))]

WithOv(f, v) == [NoOverrides EXCEPT ![f] = v]

\* the props the component is given: they differ in the mode alone, in the
\* size alone, in one override alone
PropsPool ==
  {DefaultProps,
   [mode |-> Str("bubble"), size |-> Undef, ov |-> NoOverrides, fixed |-> FALSE,
    style |-> NoStyle],
   [mode |-> Str("bubble"), size |-> Num(FromInt(29)), ov |-> NoOverrides, fixed |-> FALSE,
    style |-> NoStyle],
   [mode |-> Str("bubble"), size |-> Num(FromInt(29)),
    ov |-> WithOv("width", Num(FromInt(0))), fixed |-> FALSE, style |-> NoStyle]}

\* whether the dataURI useMemo calls buildDataURI: on the first render, and
\* when its dependency cfg is another object than at the previous render
MapRuns(init, cfgIsNew) == ~init \/ cfgIsNew

\* a buildDataURI that awaits part of its work
BuildDataURIAwaitsOnce == TRUE

\* whether buildDataURI gives up the thread before it returns: it is a plain
\* function (no async, await or callback), so once entered it returns before
\* any other code of the page runs
BuildDataURIAwaits == FALSE

\* the dataURI useMemo, whose one dependency is the cfg object: it is a new
\* object exactly when the cfg useMemo ran its callback
DataURIMemo(init, cfgIsNew, cfg, prev) ==
  IF MapRuns(init, cfgIsNew) THEN BuildDataURI(cfg) ELSE prev

NoURI == BuildDataURI(Inherited)

\* an instance's hook state; wip: it was rendered in the pass under way;
\* cfgNew: that render's cfg is a new object (the cfg callback ran in it)
\* regen: the calls of buildDataURI for the instance begun and not returned
NoComp ==
  [mounted |-> FALSE, wip |-> FALSE, props |-> DefaultProps, deps |-> <<>>,
   cfg |-> Inherited, cfgNew |-> FALSE, uid |-> <<>>, dataURI |-> NoURI,
   regen |-> 0, effInit |-> FALSE, effDeps |-> NoURI]

NoDom ==
  [present |-> FALSE, filterId |-> <<>>, backdrop |-> <<>>, style |-> NoStyle,
   href |-> NoURI]

NInst == 2
MaxIds == 2
Instances == 1..NInst

VARIABLES
  presets,    \* the module-level PRESETS object
  idCounter,  \* how many ids useId has handed out
  pass,       \* React's pass: "idle", "render" (components are being called),
              \* "commit" (the document is written, effects are pending)
  comp,       \* per instance: its props and the state of its hooks
  dom,        \* per instance: the attributes of its rendered elements
  reran,      \* whether a re-render has run some instance's cfg callback again
  rq,         \* the props of a direct call of the resolver
  rs,         \* the records that call and its repetition returned
  ib          \* an IconButton render: the variant, its props, the outcome

vars == <<presets, idCounter, pass, comp, dom, reran, rq, rs, ib>>

\* ------------------------------------------------------------------------
\* The IconButton variants
\* ------------------------------------------------------------------------

\* the icon registry ../../icons/index: a module namespace object, which has
\* no prototype, so a name it does not export reads as undefined
Icons == [Home |-> "HomeSvg", Close |-> "CloseSvg"]

JsUndefined == [k |-> "undefined", v |-> ""]
JsNull      == [k |-> "null", v |-> ""]
Component(c) == [k |-> "component", v |-> c]

\* Icons[name]
IconLookup(name) == IF name \in DOMAIN Icons THEN Component(Icons[name]) ELSE JsUndefined

\* resolveIcon of IconButtonBase: Icons[icon] ?? null for a name, the
\* component itself otherwise
ResolveIconBase(icon) ==
  IF icon.k = "name"
    THEN (IF IconLookup(icon.v).k = "undefined" THEN JsNull ELSE IconLookup(icon.v))
    ELSE Component(icon.v)

\* resolveIcon of the Suspense variant: Icons[icon] for a name
ResolveIconSuspense(icon) ==
  IF icon.k = "name" THEN IconLookup(icon.v) ELSE Component(icon.v)

\* clsx(...): the truthy arguments, in order
WrapperClasses(pr) ==
  <<<<"icon-button">>, <<"icon-button--", pr.size>>,
    <<"icon-button--", pr.tone, "--", pr.version>>>>
  \o (IF pr.inverse THEN <<<<"icon-button--inverse">>>> ELSE <<>>)
  \o (IF pr.disabled THEN <<<<"icon-button--disabled">>>> ELSE <<>>)

\* outcomes of rendering one button: React threw, nothing was rendered, or
\* the button surface with its classes and icon
Threw   == [threw |-> TRUE, surface |-> FALSE, classes |-> <<>>, svg |-> JsUndefined]
Nothing == [threw |-> FALSE, surface |-> FALSE, classes |-> <<>>, svg |-> JsNull]
Surface(pr, svg) == [threw |-> FALSE, surface |-> TRUE, classes |-> WrapperClasses(pr), svg |-> svg]

\* React mounting <SvgIcon />: an element whose type is undefined or null is
\* an invalid element type, and React throws
MountSurface(pr, svg) ==
  IF svg.k \in {"undefined", "null"} THEN Threw ELSE Surface(pr, svg)

\* IconButtonBase: if (!SvgIcon) return null
IconButtonBase(pr) ==
  LET SvgIcon == ResolveIconBase(pr.icon)
  IN  IF SvgIcon.k \in {"undefined", "null"} THEN Nothing ELSE MountSurface(pr, SvgIcon)

\* IconButton (Suspense variant): the surface is returned whatever SvgIcon is
IconButtonSuspense(pr) == MountSurface(pr, ResolveIconSuspense(pr.icon))

IconInputs ==
  {[k |-> "name", v |-> "Home"], [k |-> "name", v |-> "Close"],
   [k |-> "name", v |-> "Missing"], [k |-> "name", v |-> "toString"],
   [k |-> "component", v |-> "CustomSvg"]}

IconProps ==
  [icon : IconInputs, size : {"xs", "s", "m", "l", "xl"},
   tone : {"default", "positive", "negative", "warning"},
   version : {"primary", "secondary", "tertiary"},
   inverse : BOOLEAN, disabled : BOOLEAN]

NoIcon == [variant |-> "none", props |-> <<>>, done |-> FALSE, out |-> Nothing]

\* the hooks of GlassButtonBabel(p) on an instance whose hook state is c;
\* first: this is the instance's first render
RenderFn(c, p, first, table, n) ==
  LET deps    == Deps(p)
      run     == first \/ deps # c.deps
      cfg     == IF run THEN Resolve(table, p) ELSE c.cfg
      uid     == IF first THEN Uid(UseId(n)) ELSE c.uid
      dataURI == DataURIMemo(~first, run, cfg, c.dataURI)
  IN  [c EXCEPT !.mounted = TRUE, !.wip = TRUE, !.props = p, !.deps = deps,
                !.cfg = cfg, !.cfgNew = run, !.uid = uid, !.dataURI = dataURI]

\* the preset table after that call
RenderTable(c, p, first, table) ==
  IF first \/ Deps(p) # c.deps THEN ResolveTable(table, p) ELSE table

\* a parent renders <GlassButtonBabel {...p} /> for the first time
Mount(i, p) ==
  /\ pass \in {"idle", "render"}
  /\ ~comp[i].mounted
  /\ idCounter < MaxIds
  /\ comp' = [comp EXCEPT ![i] = RenderFn(NoComp, p, TRUE, presets, idCounter)]
  /\ presets' = RenderTable(NoComp, p, TRUE, presets)
  /\ idCounter' = idCounter + 1
  /\ pass' = "render"
  /\ UNCHANGED <<dom, reran, rq, rs, ib>>

\* the parent renders it again, with props p (the same or others)
Rerender(i, p) ==
  /\ pass \in {"idle", "render"}
  /\ comp[i].mounted /\ ~comp[i].wip
  /\ comp' = [comp EXCEPT ![i] = RenderFn(comp[i], p, FALSE, presets, idCounter)]
  /\ presets' = RenderTable(comp[i], p, FALSE, presets)
  /\ reran' = (reran \/ Deps(p) # comp[i].deps)
  /\ pass' = "render"
  /\ UNCHANGED <<idCounter, dom, rq, rs, ib>>

\* `inset(0px round ${radius}px)`
InsetRound(radius) ==
  [k |-> "inset(0px round ${}px)", n |-> Interp(radius).n, s |-> Interp(radius).s]

\* wrapperStyle: the position, the geometry, the backdrop filter and the
\* clip path taken from cfg, then ...style (the shadow, background and
\* transition are fixed strings)
WrapperStyle(fixed, filterId, cfg, style) ==
  Spread([position             |-> Str(IF fixed THEN "fixed" ELSE "relative"),
          width                |-> Get(cfg, "width"),
          height               |-> Get(cfg, "height"),
          borderRadius         |-> Get(cfg, "radius"),
          backdropFilter       |-> BackdropFilter(filterId, cfg),
          WebkitBackdropFilter |-> BackdropFilter(filterId, cfg),
          clipPath             |-> InsetRound(Get(cfg, "radius"))],
         style)

\* the attributes of the elements the render returned
Rendered(c) ==
  LET style == WrapperStyle(c.props.fixed, FilterId(c.uid), c.cfg, c.props.style)
  IN  [present  |-> TRUE,
       filterId |-> FilterId(c.uid),
       backdrop |-> style["backdropFilter"],
       style    |-> style,
       href     |-> c.dataURI]

\* React writes the elements of every instance rendered in this pass to the
\* document
Commit ==
  /\ pass = "render"
  /\ dom' = [i \in Instances |-> IF comp[i].wip THEN Rendered(comp[i]) ELSE dom[i]]
  /\ pass' = "commit"
  /\ UNCHANGED <<presets, idCounter, comp, reran, rq, rs, ib>>

\* whether useEffect(..., [dataURI]) runs its callback after this render
EffectRuns(c) == ~c.effInit \/ c.effDeps # c.dataURI

\* feImgRef.current?.setAttribute("href", dataURI), for every instance of the
\* pass whose effect runs
Effects ==
  /\ pass = "commit"
  /\ dom' = [i \in Instances |->
               IF comp[i].wip /\ EffectRuns(comp[i])
                 THEN [dom[i] EXCEPT !.href = comp[i].dataURI] ELSE dom[i]]
  /\ comp' = [i \in Instances |->
                IF comp[i].wip
                  THEN [comp[i] EXCEPT !.wip = FALSE, !.cfgNew = FALSE,
                                       !.effInit = TRUE,
                                       !.effDeps = comp[i].dataURI]
                  ELSE comp[i]]
  /\ pass' = "idle"
  /\ UNCHANGED <<presets, idCounter, reran, rq, rs, ib>>

\* the parent no longer renders the instance: its elements leave the document
Unmount(i) ==
  /\ pass = "idle"
  /\ comp[i].mounted
  /\ comp' = [comp EXCEPT ![i] = NoComp]
  /\ dom' = [dom EXCEPT ![i] = NoDom]
  /\ UNCHANGED <<presets, idCounter, pass, reran, rq, rs, ib>>

Init ==
  /\ presets = PRESETS
  /\ idCounter = 0
  /\ pass = "idle"
  /\ comp = [i \in Instances |-> NoComp]
  /\ dom = [i \in Instances |-> NoDom]
  /\ reran = FALSE
  /\ rq = DefaultProps
  /\ rs = <<>>
  /\ ib = NoIcon

Next ==
  \/ \E i \in Instances, p \in PropsPool : Mount(i, p)
  \/ \E i \in Instances, p \in PropsPool : Rerender(i, p)
  \/ Commit
  \/ Effects
  \/ \E i \in Instances : Unmount(i)

Spec == Init /\ [][Next]_vars

\* ------------------------------------------------------------------------
\* Direct calls of the resolver
\* ------------------------------------------------------------------------

MaxSize == 300
MaxOv == 2

\* the resolver runs on the props rq
CallResolve ==
  /\ Len(rs) = 0
  /\ rs' = <<Resolve(presets, rq)>>
  /\ presets' = ResolveTable(presets, rq)
  /\ UNCHANGED <<idCounter, pass, comp, dom, reran, rq, ib>>

\* it runs again, the size now being the height it returned
CallAgain ==
  LET again == [rq EXCEPT !.size = Get(rs[1], "height")]
  IN  /\ Len(rs) = 1
      /\ NotNullish(rq.size)
      /\ rs' = Append(rs, Resolve(presets, again))
      /\ presets' = ResolveTable(presets, again)
      /\ UNCHANGED <<idCounter, pass, comp, dom, reran, rq, ib>>

NextCall == CallResolve \/ CallAgain

InitCall(inputs) ==
  /\ presets = PRESETS
  /\ idCounter = 0
  /\ pass = "idle"
  /\ comp = [i \in Instances |-> NoComp]
  /\ dom = [i \in Instances |-> NoDom]
  /\ reran = FALSE
  /\ rq \in inputs
  /\ rs = <<>>
  /\ ib = NoIcon

\* every mode at every whole size, no overrides
SizeInputs ==
  {[mode |-> Str(m), size |-> Num(FromInt(n)), ov |-> NoOverrides, fixed |-> FALSE,
    style |-> NoStyle] :
     m \in Modes, n \in 1..MaxSize}

InitSize == InitCall(SizeInputs)
SpecSize == InitSize /\ [][NextCall]_vars

\* the value an override of field f takes: a zero, an ordinary value, null
OvValue(f, kind) ==
  CASE kind = "null" -> Null
    [] kind = "zero" /\ f \in NumFields -> Num(FromInt(0))
    [] kind = "some" /\ f \in NumFields -> Num(Dec(3, 2))
    [] f = "blend" -> Str(IF kind = "zero" THEN "normal" ELSE "screen")
    [] OTHER -> Str(IF kind = "zero" THEN "G" ELSE "B")

OvKinds == {"zero", "some", "null"}

\* at most MaxOv fields overridden
OvInputs ==
  {[f \in ConfigFields |-> IF f \in S THEN OvValue(f, kind) ELSE Undef] :
     S \in {T \in SUBSET ConfigFields : Cardinality(T) <= MaxOv}, kind \in OvKinds}

ModeInputs ==
  {Undef, Null, Str("dock"), Str("pill"), Str("bubble"), Str("free"), Str("orb"),
   Str("toString")}

OvSizes == {Undef, Null, Num(FromInt(24))}

OverrideInputs ==
  {[mode |-> m, size |-> z, ov |-> o, fixed |-> FALSE, style |-> NoStyle] :
     m \in ModeInputs, z \in OvSizes, o \in OvInputs}

InitOv == InitCall(OverrideInputs)
SpecOv == InitOv /\ [][NextCall]_vars

\* ------------------------------------------------------------------------
\* Renders of the IconButton variants
\* ------------------------------------------------------------------------

RenderBase ==
  /\ ib.variant = "base" /\ ~ib.done
  /\ ib' = [ib EXCEPT !.done = TRUE, !.out = IconButtonBase(ib.props)]
  /\ UNCHANGED <<presets, idCounter, pass, comp, dom, reran, rq, rs>>

RenderSuspense ==
  /\ ib.variant = "suspense" /\ ~ib.done
  /\ ib' = [ib EXCEPT !.done = TRUE, !.out = IconButtonSuspense(ib.props)]
  /\ UNCHANGED <<presets, idCounter, pass, comp, dom, reran, rq, rs>>

NextIcon == RenderBase \/ RenderSuspense

InitIcon ==
  /\ presets = PRESETS
  /\ idCounter = 0
  /\ pass = "idle"
  /\ comp = [i \in Instances |-> NoComp]
  /\ dom = [i \in Instances |-> NoDom]
  /\ reran = FALSE
  /\ rq = DefaultProps
  /\ rs = <<>>
  /\ ib \in [variant : {"base", "suspense"}, props : IconProps, done : {FALSE},
             out : {Nothing}]

SpecIcon == InitIcon /\ [][NextIcon]_vars

\* ------------------------------------------------------------------------
\* One instance, rendered with props that differ in every kind of prop
\* ------------------------------------------------------------------------

\* style props: none, one that sets no geometry (an opacity and a backdrop
\* filter of the caller's), one that sets the width
StyleInputs ==
  {NoStyle,
   [opacity |-> Num(Dec(1, 2)), backdropFilter |-> Str("url(#my-filter) blur(4px)")],
   [width |-> Num(FromInt(10))]}

MemoOverrides ==
  {NoOverrides, WithOv("width", Num(FromInt(0))), WithOv("frost", Num(Dec(1, 2))),
   WithOv("frost", Null)}

MemoPool ==
  [mode : {Undef, Str("dock"), Str("bubble")}, size : {Undef, Num(FromInt(29))},
   ov : MemoOverrides, fixed : BOOLEAN, style : StyleInputs]

NextMemo ==
  \/ \E p \in MemoPool : Mount(1, p)
  \/ \E p \in MemoPool : Rerender(1, p)
  \/ Commit
  \/ Effects
  \/ Unmount(1)

SpecMemo == Init /\ [][NextMemo]_vars

\* ------------------------------------------------------------------------
\* Renders step by step: the call of buildDataURI begins and returns
\* ------------------------------------------------------------------------

\* the hook state when the render reaches the dataURI useMemo
HooksBeforeMap(c, p, first, table, n) ==
  [RenderFn(c, p, first, table, n) EXCEPT !.dataURI = c.dataURI]

\* a call of buildDataURI is on the stack: JavaScript runs it to its return
\* before anything else, unless it awaits
Busy == \E i \in Instances : comp[i].regen > 0 /\ ~BuildDataURIAwaits

\* React calls GlassButtonBabel(p) for instance i (its first render or a
\* later one); the hooks run, and a dataURI useMemo that has to recompute
\* enters buildDataURI
RenderCall(i, p) ==
  LET first == ~comp[i].mounted
      h     == HooksBeforeMap(comp[i], p, first, presets, idCounter)
  IN  /\ pass \in {"idle", "render"}
      /\ ~comp[i].wip
      /\ first => idCounter < MaxIds
      /\ comp' = [comp EXCEPT ![i] =
                    IF MapRuns(~first, h.cfgNew)
                      THEN [h EXCEPT !.regen = h.regen + 1]
                      ELSE RenderFn(comp[i], p, first, presets, idCounter)]
      /\ presets' = RenderTable(comp[i], p, first, presets)
      /\ idCounter' = IF first THEN idCounter + 1 ELSE idCounter
      /\ reran' = (reran \/ (~first /\ Deps(p) # comp[i].deps))
      /\ pass' = "render"
      /\ UNCHANGED <<dom, rq, rs, ib>>

\* buildDataURI returns: the memo keeps its result and the render goes on
\* to its end (the memo holds an earlier result once a pass has completed)
MapReturn(i) ==
  /\ comp[i].regen > 0
  /\ comp' = [comp EXCEPT ![i] =
                [comp[i] EXCEPT
                   !.regen = comp[i].regen - 1,
                   !.dataURI = DataURIMemo(comp[i].effInit, comp[i].cfgNew,
                                           comp[i].cfg, comp[i].dataURI)]]
  /\ UNCHANGED <<presets, idCounter, pass, dom, reran, rq, rs, ib>>

\* the instances rendered step by step
RegenInstances == {1, 2}

NextRegen ==
  \/ ~Busy /\ \E i \in RegenInstances, p \in PropsPool : RenderCall(i, p)
  \/ \E i \in RegenInstances : MapReturn(i)
  \/ ~Busy /\ Commit
  \/ ~Busy /\ Effects
  \/ ~Busy /\ \E i \in RegenInstances : Unmount(i)

SpecRegen == Init /\ [][NextRegen]_vars

\* ------------------------------------------------------------------------
\* One instance, mounted on records of many sizes and borders
\* ------------------------------------------------------------------------

\* border, width and height overridden or not; 3/2 is a border out of range
MapOverrides ==
  {[f \in ConfigFields |->
      CASE f = "border" -> bo [] f = "width" -> w [] f = "height" -> h
        [] OTHER -> Undef] :
     bo \in {Undef, Num(FromInt(0)), Num(FromInt(1)), Num(Dec(1, 3)), Num(Dec(3, 2))},
     w \in {Undef, Num(FromInt(0)), Num(Dec(1, 3)), Num(FromInt(7))},
     h \in {Undef, Num(FromInt(0)), Num(Dec(1, 3)), Num(FromInt(7))}}

MapPool ==
  SizeInputs \cup
  [mode : {Str(m) : m \in Modes}, size : {Undef, Num(FromInt(29))},
   ov : MapOverrides, fixed : {FALSE}, style : {NoStyle}]

NextMap ==
  \/ \E p \in MapPool : Mount(1, p)
  \/ Commit
  \/ Effects
  \/ Unmount(1)

SpecMap == Init /\ [][NextMap]_vars
\* ------------------------------------------------------------------------
\* Properties
\* ------------------------------------------------------------------------

SizeTokenMin == 16
SizeTokenMax == 128

\* the preset and the factor of the direct call rq
CallPreset == SelectPreset(PRESETS, ModeKey(rq))
CallFactor == DivD(ToNumber(rq.size), ToNumber(Get(CallPreset, "height")))

\* C1: for each of the four modes and every size in 16..128, resolving with
\* that size and no overrides gives a record whose height is exactly the
\* size, and whose width, radius, blur and displace are the preset's field
\* times size / preset.height.
C1_HeightIsSize ==
  (/\ Len(rs) >= 1
   /\ rq.ov = NoOverrides
   /\ ModeKey(rq) \in Modes
   /\ rq.size \in {Num(FromInt(n)) : n \in SizeTokenMin..SizeTokenMax})
  => /\ rs[1]["height"] = rq.size
     /\ \A f \in {"width", "radius", "blur", "displace"} :
          rs[1][f] = Num(MulD(CallPreset[f].n, CallFactor))

\* C2: a non-null, non-undefined override (0 included) is the final value of
\* its field, whatever the mode and the size, and every field without one
\* keeps the value of the preset/size-scaling step.
C2_OverridesTakePrecedence ==
  Len(rs) >= 1 =>
    \A f \in ConfigFields :
      IF NotNullish(rq.ov[f])
        THEN f \in DOMAIN rs[1] /\ rs[1][f] = rq.ov[f]
        ELSE Get(rs[1], f) = Get(Sized(PRESETS, rq), f)

\* a zero override on top of a size-scaled preset, beside a null one
C2_Witness ==
  /\ Len(rs) = 1
  /\ NotNullish(rq.size)
  /\ ModeKey(rq) = "free"
  /\ rq.ov["width"] = Num(FromInt(0)) /\ rq.ov["blend"] = Str("normal")
  /\ rs[1]["width"] = Num(FromInt(0))
  /\ rs[1]["height"] = Num(FromInt(24))

\* C3: a shape identifier that is none of dock, pill, bubble, free resolves,
\* with any size and overrides, to a fully populated record, the one "dock"
\* resolves to with the same size and overrides.
C3_UnknownModeIsDock ==
  (Len(rs) >= 1 /\ rq.mode.k = "string" /\ rq.mode.s \notin Modes)
  => /\ DOMAIN rs[1] = ConfigFields
     /\ rs[1] = Resolve(PRESETS, [rq EXCEPT !.mode = Str("dock")])

\* C4: after any sequence of resolutions, on any instances, every entry of
\* the preset table is field for field its initial value.
C4_PresetsImmutable == presets = PRESETS

\* every instance has resolved, one of them again after its props changed,
\* one with a size and an override
C4_Witness ==
  /\ pass = "idle"
  /\ reran
  /\ \A i \in Instances : comp[i].mounted
  /\ \E i \in Instances :
       /\ NotNullish(comp[i].props.size)
       /\ NotNullish(comp[i].props.ov["width"])

Dimensionless == {"border", "alpha", "lightness", "saturation", "blend", "x", "y", "frost"}

\* C5: for every preset and every size, the record applySize returns has the
\* preset's border, alpha, lightness, saturation, blend, x, y and frost.
C5_DimensionlessKept ==
  Len(rs) >= 1 => \A f \in Dimensionless : rs[1][f] = PRESETS[ModeKey(rq)][f]

\* free scaled well below its natural height, border still 0.15
C5_Witness ==
  /\ Len(rs) = 1
  /\ ModeKey(rq) = "free" /\ rq.size = Num(FromInt(24))
  /\ rs[1]["border"] = Num(Dec(15, 100))
  /\ rs[1]["width"] = Num(FromInt(12))

\* -180 * (24 / 140) = -30.857142857142858
BubbleScaleAt24 == [s |-> -1, m |-> <<28087, 28086, 28086, 246>>, e |-> -48]

\* C6: for every preset and positive size, scale, r, g and b are each the
\* preset's value times factor = size / preset.height; scale stays negative,
\* and its magnitude shrinks when the factor is below 1; bubble at 24 has
\* scale -180 * 24 / 140.
C6_ScaleAndChroma ==
  Len(rs) >= 1 =>
    /\ \A f \in {"scale", "r", "g", "b"} :
         rs[1][f] = Num(MulD(CallPreset[f].n, CallFactor))
    /\ rs[1]["scale"].n.s = -1 /\ ~IsZero(rs[1]["scale"].n)
    /\ CmpD(rq.size.n, CallPreset["height"].n) < 0
         => CmpD(Neg(rs[1]["scale"].n), Neg(CallPreset["scale"].n)) < 0
    /\ (ModeKey(rq) = "bubble" /\ rq.size = Num(FromInt(24)))
         => rs[1]["scale"].n = BubbleScaleAt24

\* bubble at 24: scale is -30.857142857142858 and b is 20 * 24 / 140
C6_Witness ==
  /\ Len(rs) = 1
  /\ ModeKey(rq) = "bubble" /\ rq.size = Num(FromInt(24))
  /\ rs[1]["scale"].n = BubbleScaleAt24
  /\ rs[1]["b"].n = [s |-> 1, m |-> <<28087, 28086, 28086, 54>>, e |-> -49]

\* C7: resolving a preset at a size, then again with the size set to the
\* first result's height, gives the same record.
C7_ReResolveSame == Len(rs) = 2 => rs[2] = rs[1]

\* bubble at 29, whose first height is 29.000000000000004, resolved twice
C7_Witness ==
  /\ Len(rs) = 2
  /\ ModeKey(rq) = "bubble" /\ rq.size = Num(FromInt(29))
  /\ rs[1]["height"].n = [s |-> 1, m |-> <<1, 0, 0, 232>>, e |-> -48]
  /\ rs[2]["height"].n = rs[1]["height"].n

\* C8: in every icon-button variant, an icon name missing from the registry
\* renders nothing: the render does not fail and produces no button surface.
C8_MissingIconRendersNothing ==
  (ib.done /\ ib.props.icon.k = "name" /\ ib.props.icon.v \notin DOMAIN Icons)
  => ~ib.out.threw /\ ~ib.out.surface

\* C9: no two instances in the document (or rendered) at once have the same
\* filter id; the backdrop filter of an instance's container is url(#id)
\* with the id of its own filter element; and its filter id is the same
\* after every re-render.
C9_FilterIds ==
  /\ [](/\ \A i, j \in Instances :
             (i # j /\ dom[i].present /\ dom[j].present)
               => dom[i].filterId # dom[j].filterId
        /\ \A i, j \in Instances :
             (i # j /\ comp[i].mounted /\ comp[j].mounted)
               => Rendered(comp[i]).filterId # Rendered(comp[j]).filterId
        /\ \A i \in Instances :
             dom[i].present =>
               /\ "url" \in DOMAIN dom[i].backdrop
               /\ dom[i].backdrop.url = dom[i].filterId)
  /\ [][\A i \in Instances :
          (dom[i].present /\ dom'[i].present) => dom'[i].filterId = dom[i].filterId]_vars

\* the data URI each props of the pool resolve to
ExpectedURI == [p \in PropsPool |-> BuildDataURI(Resolve(PRESETS, p))]

\* C10: once a render and its effects have completed, the href of the
\* instance's map image is buildDataURI of the configuration resolved from
\* its current props, whatever props it had before; and at no moment are
\* two calls of buildDataURI for one instance in progress.
C10_MapIsCurrent ==
  /\ pass = "idle" =>
       \A i \in Instances :
         comp[i].mounted => dom[i].present /\ dom[i].href = ExpectedURI[comp[i].props]
  /\ \A i \in Instances : comp[i].regen <= 1

\* instance 1 had its props changed, its map regenerated, its effect run
\* again and its href replaced (instance 2, the only other one ever
\* mounted, is in its first render); the buildDataURI call of instance 2 is
\* in progress
C10_Witness ==
  /\ pass = "render"
  /\ reran /\ idCounter = 2
  /\ comp[1].mounted /\ ~comp[1].wip /\ comp[1].regen = 0
  /\ comp[1].props.ov["width"] = Num(FromInt(0))
  /\ dom[1].href = comp[1].effDeps
  /\ dom[1].href.viewBox[1] = Num(Zero)
  /\ comp[2].mounted /\ ~comp[2].effInit /\ comp[2].regen = 1

\* whether mode (as the component receives it), size or an override of q is
\* another value than p's
InputsDiffer(p, q) ==
  \/ ModeVal(p) # ModeVal(q)
  \/ p.size # q.size
  \/ \E f \in ConfigFields : p.ov[f] # q.ov[f]

\* C11: a first render computes the record and the map; a later render
\* computes the record anew if and only if mode, size or an override is
\* another value than at the previous render, and then the map is the one of
\* the new record; otherwise (only fixed or style changed, or nothing) the
\* record and the map are the previous ones.
C11_RecomputeIffInputsChange ==
  [][\A i \in Instances :
       (comp'[i].wip /\ ~comp[i].wip) =>
         IF ~comp[i].mounted
           THEN /\ comp'[i].cfgNew
                /\ comp'[i].dataURI = BuildDataURI(Resolve(PRESETS, comp'[i].props))
           ELSE /\ comp'[i].cfgNew <=> InputsDiffer(comp[i].props, comp'[i].props)
                /\ comp'[i].cfgNew =>
                     /\ comp'[i].cfg = Resolve(PRESETS, comp'[i].props)
                     /\ comp'[i].dataURI = BuildDataURI(comp'[i].cfg)
                /\ ~comp'[i].cfgNew =>
                     /\ comp'[i].cfg = comp[i].cfg
                     /\ comp'[i].dataURI = comp[i].dataURI]_vars

\* a re-render that made the instance fixed (the document still shows it
\* relative) and gave it a style, and reused the record of bubble at 29
C11_Witness ==
  /\ pass = "render"
  /\ comp[1].wip /\ comp[1].effInit /\ ~comp[1].cfgNew
  /\ comp[1].props.fixed /\ comp[1].props.style # NoStyle
  /\ comp[1].props.size = Num(FromInt(29))
  /\ dom[1].present /\ dom[1].style["position"] = Str("relative")
  /\ dom[1].href = comp[1].dataURI

\* the record has width >= 0, height >= 0 and 0 <= border <= 1
InRange(cfg) ==
  /\ \A f \in {"width", "height", "border"} : cfg[f].k = "number" /\ ~IsNaN(cfg[f].n)
  /\ CmpD(cfg["width"].n, Zero) >= 0 /\ CmpD(cfg["height"].n, Zero) >= 0
  /\ CmpD(cfg["border"].n, Zero) >= 0 /\ CmpD(cfg["border"].n, FromInt(1)) <= 0

\* min(width, height) * border / 2
HalfBorder(cfg) ==
  DivD(MulD(MinD(cfg["width"].n, cfg["height"].n), cfg["border"].n), FromInt(2))

\* C12: when the record of a mounted instance has width >= 0, height >= 0
\* and 0 <= border <= 1, the core rectangle of its map is at x = y = b =
\* min(width, height) * border / 2, is width - 2b wide and height - 2b high,
\* and neither is negative.
C12_CoreNotNegative ==
  \A i \in Instances :
    (comp[i].mounted /\ InRange(comp[i].cfg)) =>
      LET cfg  == comp[i].cfg
          core == comp[i].dataURI.core
          b    == HalfBorder(cfg)
      IN  /\ core.x = Interp(Num(b)) /\ core.y = Interp(Num(b))
          /\ core.width = Interp(Num(SubD(cfg["width"].n, MulD(FromInt(2), b))))
          /\ core.height = Interp(Num(SubD(cfg["height"].n, MulD(FromInt(2), b))))
          /\ CmpD(core.width.n, Zero) >= 0
          /\ CmpD(core.height.n, Zero) >= 0

\* free (140 by 280) with border 1: the core is inset by 70 and has width 0
C12_Witness ==
  /\ comp[1].mounted
  /\ ModeKey(comp[1].props) = "free" /\ comp[1].props.size = Undef
  /\ comp[1].props.ov["border"] = Num(FromInt(1))
  /\ comp[1].props.ov["width"] = Undef /\ comp[1].props.ov["height"] = Undef
  /\ comp[1].dataURI.core.x = Num(FromInt(70))
  /\ comp[1].dataURI.core.width = Num(Zero)
  /\ comp[1].dataURI.core.height = Num(FromInt(140))

\* C13: the container an instance has in the document has the width, the
\* height and the radius (as border radius and as clip-path radius) of the
\* configuration resolved from the props it was rendered with, whatever
\* those props are.
C13_GeometryFromConfig ==
  \A i \in Instances :
    (dom[i].present /\ (~comp[i].wip \/ pass = "commit")) =>
      LET cfg == Resolve(PRESETS, comp[i].props)
      IN  /\ dom[i].style["width"] = Get(cfg, "width")
          /\ dom[i].style["height"] = Get(cfg, "height")
          /\ dom[i].style["borderRadius"] = Get(cfg, "radius")
          /\ dom[i].style["clipPath"] = InsetRound(Get(cfg, "radius"))
====
